---- MODULE Spec2Model ----
(***************************************************************************)
(* A model of the const-sized ring buffer of circ_buffer (src/src/lib.rs). *)
(*                                                                         *)
(* A slot of `items: [MaybeUninit<T>; N]` is modelled with the element it  *)
(* holds and a tag the program itself does not store: "uninit" (never      *)
(* written), "occupied" (holds a live value) or "stale" (the bits of a     *)
(* value that was moved out or destroyed are still there).  An element is  *)
(* a record [id, val]: val is what the caller sees, id tells apart two     *)
(* elements of equal value, so that destructor runs can be counted per     *)
(* element.                                                                *)
(***************************************************************************)
EXTENDS Integers, Sequences, FiniteSets

\* ---------------------------------------------------------------- bounds
MaxN == 3        \* capacities 0..MaxN are explored
MaxElems == 5    \* elements ever created (pushed or cloned) in one run

Handles == {"a", "b"}   \* "a" is made by new(), "b" by a.clone()
Vals == {1, 2}          \* the values pushed
Ids == 1..MaxElems

VARIABLES
  N,          \* the const generic N of RingBuffer<T, N>
  kind,       \* kind[h]: "absent", "buffer" (RingBuffer), "iter" (RingBufferIter), "dropped"
  storage,    \* storage[h]: the ItemStorage [items, size, first] behind handle h
  hist,       \* hist[h]: the elements placed into h (by push or by clone), in order
  nextId,     \* id of the next element created
  destroyed,  \* destroyed[id]: the destructor runs of element id, as <<[site, by]>>
  yielded,    \* yielded[h]: of the consuming iterator h, src: what the buffer held when
              \* into_iter took it, out: what next() returned so far
  refit,      \* the RingBufferIterRef in use, if any
  indexed,    \* the index call just made and what it returned, if the last step was one
  ub,         \* whether a slot holding no live value was read, moved out or destroyed
  walked,     \* the last walk of iter() that ran to None, while the buffer is unmodified
  io          \* the last serialize or deserialize call and what it returned

vars == <<N, kind, storage, hist, nextId, destroyed, yielded, refit, indexed, ub, walked, io>>

\* ---------------------------------------------------------------- slots
Uninit == [id |-> 0, val |-> 0, st |-> "uninit"]
NoElem == [id |-> 0, val |-> 0]

Occupied(e) == [id |-> e.id, val |-> e.val, st |-> "occupied"]
ElemOf(slot) == [id |-> slot.id, val |-> slot.val]

Min(x, y) == IF x <= y THEN x ELSE y

\* MaybeUninit::write: overwrites the slot, running no destructor
write(e) == Occupied(e)

\* MaybeUninit::assume_init_drop: runs the destructor of the value in place.
\* On a slot that holds no live value this is undefined behaviour: on stale
\* bits the destructor of the old value runs again.
assume_init_drop(slot, d, tag) ==
  [slot |-> IF slot.st = "uninit" THEN slot ELSE [slot EXCEPT !.st = "stale"],
   d    |-> IF slot.st = "uninit" THEN d ELSE [d EXCEPT ![slot.id] = Append(@, tag)],
   ub   |-> slot.st # "occupied"]

\* MaybeUninit::assume_init_read: moves the value out by a bitwise copy
assume_init_read(slot) ==
  [slot |-> IF slot.st = "uninit" THEN slot ELSE [slot EXCEPT !.st = "stale"],
   out  |-> ElemOf(slot),
   ub   |-> slot.st # "occupied"]

\* MaybeUninit::assume_init_ref
assume_init_ref(slot) == [out |-> ElemOf(slot), ub |-> slot.st # "occupied"]

\* ---------------------------------------------------------------- operations
\* RingBuffer::new
RingBuffer_new == [items |-> [p \in 0..(N - 1) |-> Uninit], first |-> 0, size |-> 0]

\* RingBuffer::get_size
RingBuffer_get_size(s) == s.size

\* faulty variant: push counts its slot from 0, not from the cursor
push_last_unrotated(s) == s.size % N

\* the slot push writes: last = (first + size) % N
push_last(s) == (s.first + s.size) % N

\* faulty variant: push never destroys the value it overwrites
push_evicts_never(s) == s.size > N

\* push destroys the value in that slot first: if self.0.size == N
push_evicts(s) == s.size = N

\* faulty variant: the value handed to push is forgotten, its destructor never runs
discard_forgets(new_item, d, h) == d

\* the value handed to push leaves scope unused when N = 0: its destructor runs
discard(new_item, d, h) ==
  [d EXCEPT ![new_item.id] = Append(@, [site |-> "discard", by |-> h])]

\* faulty variant: the cursor stays where it is when the oldest element is replaced
push_first_stays(s) == s.first

\* faulty variant: the cursor moves on every push
push_first_always(s) == (s.first + 1) % N

\* the cursor update of push: first = (first + size.div_euclid(N)) % N
push_first(s) == (s.first + (s.size \div N)) % N

\* faulty variant: the size is not capped at N
push_size_uncapped(s) == s.size + 1

\* the size update of push: size = N.min(size + 1)
push_size(s) == Min(N, s.size + 1)

\* RingBuffer::push(new_item) on storage s; d is the destructor log, h the handle
RingBuffer_push(s, new_item, d, h) ==
  IF N > 0
  THEN LET lst == push_last(s)
           ev  == IF push_evicts(s)
                  THEN assume_init_drop(s.items[lst], d, [site |-> "evict", by |-> h])
                  ELSE [slot |-> s.items[lst], d |-> d, ub |-> FALSE]
       IN [s  |-> [items |-> [s.items EXCEPT ![lst] = write(new_item)],
                   first |-> push_first(s),
                   size  |-> push_size(s)],
           d  |-> ev.d,
           ub |-> ev.ub]
  ELSE [s |-> s, d |-> discard(new_item, d, h), ub |-> FALSE]

\* RingBuffer::push(new_item) on a full buffer when the destructor of the
\* evicted element panics inside assume_init_drop: the destructor has run on
\* the slot, the write and the updates of first and size are not reached, and
\* unwinding drops new_item, which push owns.
RingBuffer_push_unwind(s, new_item, d, h) ==
  LET lst == push_last(s)
      ev  == assume_init_drop(s.items[lst], d, [site |-> "evict_panic", by |-> h])
  IN [s  |-> [s EXCEPT !.items[lst] = ev.slot],
      d  |-> [ev.d EXCEPT ![new_item.id] = Append(@, [site |-> "unwind", by |-> h])],
      ub |-> ev.ub]

\* Drop for ItemStorage: for n in 0..self.size { items[(first + n) % N].assume_init_drop() }
\* faulty variant: drop walks all N slots
drop_count_all(s) == N

\* the range of the loop of drop: 0..self.size
drop_count(s) == s.size

RECURSIVE drop_loop(_, _, _, _)
drop_loop(s, n, acc, h) ==
  IF n >= drop_count(s)
  THEN acc
  ELSE LET p == (s.first + n) % N
           r == assume_init_drop(acc.items[p], acc.d, [site |-> "drop", by |-> h])
       IN drop_loop(s, n + 1,
                    [items |-> [acc.items EXCEPT ![p] = r.slot],
                     d     |-> r.d,
                     ub    |-> acc.ub \/ r.ub], h)

ItemStorage_drop(s, d, h) ==
  LET r == drop_loop(s, 0, [items |-> s.items, d |-> d, ub |-> FALSE], h)
  IN [s |-> [s EXCEPT !.items = r.items], d |-> r.d, ub |-> r.ub]

\* faulty variant: the clone is a bitwise copy that shares the element with the original
T_clone_alias(e, id) == e

\* T::clone of the element behind a reference: a new element of equal value
T_clone(e, id) == [id |-> id, val |-> e.val]

\* Clone for ItemStorage: for i in 0..self.size { let i = (first + i) % N;
\*   new_items[i].write(self.items[i].assume_init_ref().clone()) }
\* faulty variant: clone walks all N slots
clone_count_all(s) == N

\* the range of the loop of clone: 0..self.size
clone_count(s) == s.size

RECURSIVE clone_loop(_, _, _, _)
clone_loop(s, i, acc, id0) ==
  IF i >= clone_count(s)
  THEN acc
  ELSE LET p == (s.first + i) % N
           r == assume_init_ref(s.items[p])
       IN clone_loop(s, i + 1,
                     [items |-> [acc.items EXCEPT ![p] = write(T_clone(r.out, id0 + i))],
                      ub    |-> acc.ub \/ r.ub], id0)

ItemStorage_clone(s, id0) ==
  LET r == clone_loop(s, 0, [items |-> [p \in 0..(N - 1) |-> Uninit], ub |-> FALSE], id0)
  IN [s |-> [items |-> r.items, first |-> s.first, size |-> s.size], ub |-> r.ub]

\* IntoIterator for RingBuffer: RingBufferIter(self.0), the storage is moved
RingBuffer_into_iter(s) == s

\* faulty variant: the consuming iterator does not advance its cursor
iter_first_stays(s) == s.first

\* faulty variant: the consuming iterator does not count the element it gave away
iter_size_stays(s) == s.size

\* the cursor and size updates of RingBufferIter::next
iter_first(s) == (s.first + 1) % N
iter_size(s) == s.size - 1

\* RingBufferIter::next; out is <<>> for None and <<e>> for Some(e)
RingBufferIter_next(s) ==
  IF s.size = 0
  THEN [s |-> s, out |-> <<>>, ub |-> FALSE]
  ELSE LET index == s.first
           r == assume_init_read(s.items[index])
       IN [s   |-> [items |-> [s.items EXCEPT ![index] = r.slot],
                    first |-> iter_first(s),
                    size  |-> iter_size(s)],
           out |-> <<r.out>>,
           ub  |-> r.ub]

\* RingBuffer::iter: the iterator copies first and size and borrows items
RingBuffer_iter(s) == [first |-> s.first, size |-> s.size]

\* RingBufferIterRef::next on iterator state r over the borrowed items
RingBufferIterRef_next(items, r) ==
  IF r.size = 0
  THEN [r |-> r, out |-> <<>>, ub |-> FALSE]
  ELSE LET index == r.first
           x == assume_init_ref(items[index])
       IN [r   |-> [first |-> (r.first + 1) % N, size |-> r.size - 1],
           out |-> <<x.out>>,
           ub  |-> x.ub]

\* iter().collect(): next() until it returns None
RECURSIVE collect(_, _)
collect(items, r) ==
  LET x == RingBufferIterRef_next(items, r)
  IN IF x.out = <<>> THEN <<>> ELSE x.out \o collect(items, x.r)

IterOf(s) == collect(s.items, RingBuffer_iter(s))

\* the guard of Index for ItemStorage: if index > self.size { panic!("index > size") }
index_guard(s, index) == index > s.size

\* faulty variant: index() does not start from the cursor
index_slot_unrotated(s, index) == index % N

\* the slot index() reads: (self.first + index) % N
index_slot(s, index) == (s.first + index) % N

\* Index for ItemStorage (Index for RingBuffer forwards to it).
\* kind is "panic" or "ref"; with N = 0 the remainder by N panics.
ItemStorage_index(s, index) ==
  IF index_guard(s, index)
  THEN [kind |-> "panic", why |-> "index > size", out |-> NoElem, ub |-> FALSE]
  ELSE IF N = 0
  THEN [kind |-> "panic", why |-> "remainder by zero", out |-> NoElem, ub |-> FALSE]
  ELSE LET r == assume_init_ref(s.items[index_slot(s, index)])
       IN [kind |-> "ref", why |-> "", out |-> r.out, ub |-> r.ub]

\* ---------------------------------------------------------------- serde
\* faulty variant: the declared length is the capacity
serialize_len_capacity(s) == N

\* the length Serialize declares: serializer.serialize_seq(Some(self.0.size))
serialize_len(s) == s.size

\* Serialize for RingBuffer: the declared length, then serialize_element for
\* every element of self.iter(); an element is encoded as its value
serialize(s) ==
  LET elements == IterOf(s)
  IN [len |-> serialize_len(s), data |-> [k \in 1..Len(elements) |-> elements[k].val]]

\* faulty variant: the visitor rejects the N-th element already
visit_seq_rejects_early(counter) == counter + 1 >= N

\* faulty variant: the visitor lets one element too many through
visit_seq_rejects_late(counter) == counter > N

\* the check of visit_seq on every element read: if counter >= N { return Err(..) }
visit_seq_rejects(counter) == counter >= N

\* FixedSizedRingBufferVisitor::visit_seq, from its loop on: seq.next_element()
\* makes element number counter + 1 of the input (id0 + counter), None at its
\* end. On Err the element just read and the buffer built so far are dropped.
RECURSIVE visit_seq_loop(_, _, _, _, _)
visit_seq_loop(input, counter, elements, d, id0) ==
  IF counter >= Len(input)
  THEN [kind |-> "ok", len |-> 0, s |-> elements, d |-> d, read |-> counter, ub |-> FALSE]
  ELSE LET element == [id |-> id0 + counter, val |-> input[counter + 1]]
       IN IF visit_seq_rejects(counter)
          THEN LET d1 == [d EXCEPT ![element.id] =
                            Append(@, [site |-> "drop", by |-> "visitor"])]
                   r  == ItemStorage_drop(elements, d1, "visitor")
               IN [kind |-> "invalid_length", len |-> N, s |-> r.s, d |-> r.d,
                   read |-> counter + 1, ub |-> r.ub]
          ELSE LET r == RingBuffer_push(elements, element, d, "visitor")
               IN visit_seq_loop(input, counter + 1, r.s, r.d, id0)

visit_seq(input, d, id0) == visit_seq_loop(input, 0, RingBuffer_new, d, id0)

\* the loop of deserialize: for element in elements.into_iter() { circ_buffer.push(element) };
\* the drained iterator is dropped at its end
RECURSIVE deserialize_loop(_, _, _, _)
deserialize_loop(it, circ_buffer, d, h) ==
  LET x == RingBufferIter_next(it)
  IN IF x.out = <<>>
     THEN LET r == ItemStorage_drop(it, d, "visitor")
          IN [s |-> circ_buffer, d |-> r.d, ub |-> r.ub]
     ELSE LET r == RingBuffer_push(circ_buffer, x.out[1], d, h)
          IN deserialize_loop(x.s, r.s, r.d, h)

\* Deserialize for RingBuffer, into handle h
deserialize(input, d, id0, h) ==
  LET v == visit_seq(input, d, id0)
  IN IF v.kind # "ok"
     THEN [kind |-> v.kind, len |-> v.len, s |-> RingBuffer_new, d |-> v.d, read |-> v.read,
           ub |-> v.ub]
     ELSE LET r == deserialize_loop(RingBuffer_into_iter(v.s), RingBuffer_new, v.d, h)
          IN [kind |-> "ok", len |-> 0, s |-> r.s, d |-> r.d, read |-> v.read,
              ub |-> v.ub \/ r.ub]

\* ---------------------------------------------------------------- state
NoRef == [active |-> FALSE, h |-> "a", r |-> [first |-> 0, size |-> 0], out |-> <<>>,
          done |-> FALSE]

NoIndex == [called |-> FALSE, h |-> "a", i |-> 0, kind |-> "", why |-> "", out |-> NoElem,
            ub |-> FALSE]

NoWalk == [valid |-> FALSE, h |-> "a", out |-> <<>>]

NoIo == [op |-> "none", data |-> <<>>, len |-> 0, kind |-> "", read |-> 0]

Borrowed(h) == refit.active /\ refit.h = h

Init ==
  /\ N \in 0..MaxN
  /\ kind = [h \in Handles |-> IF h = "a" THEN "buffer" ELSE "absent"]
  /\ storage = [h \in Handles |-> RingBuffer_new]
  /\ hist = [h \in Handles |-> <<>>]
  /\ nextId = 1
  /\ destroyed = [id \in Ids |-> <<>>]
  /\ yielded = [h \in Handles |-> [src |-> <<>>, out |-> <<>>]]
  /\ refit = NoRef
  /\ indexed = NoIndex
  /\ ub = FALSE
  /\ walked = NoWalk
  /\ io = NoIo

\* index(i) is called with every i up to two past the capacity
IndexArgs == 0..(N + 2)

\* h.push(v)
Push(h, v) ==
  /\ kind[h] = "buffer"
  /\ ~refit.active
  /\ nextId <= MaxElems
  /\ LET e == [id |-> nextId, val |-> v]
         r == RingBuffer_push(storage[h], e, destroyed, h)
     IN /\ storage' = [storage EXCEPT ![h] = r.s]
        /\ destroyed' = r.d
        /\ hist' = [hist EXCEPT ![h] = Append(@, e)]
        /\ ub' = (ub \/ r.ub)
  /\ nextId' = nextId + 1
  /\ indexed' = NoIndex
  /\ walked' = NoWalk
  /\ io' = NoIo
  /\ UNCHANGED <<N, kind, yielded, refit>>

\* h.push(v) where the destructor of the element to evict panics; the caller
\* catches the unwind and keeps the buffer
PushUnwind(h, v) ==
  /\ kind[h] = "buffer"
  /\ ~refit.active
  /\ nextId <= MaxElems
  /\ N > 0
  /\ push_evicts(storage[h])
  /\ LET e == [id |-> nextId, val |-> v]
         r == RingBuffer_push_unwind(storage[h], e, destroyed, h)
     IN /\ storage' = [storage EXCEPT ![h] = r.s]
        /\ destroyed' = r.d
        /\ ub' = (ub \/ r.ub)
  /\ nextId' = nextId + 1
  /\ indexed' = NoIndex
  /\ walked' = NoWalk
  /\ io' = NoIo
  /\ UNCHANGED <<N, kind, hist, yielded, refit>>

\* let dst = src.clone()
Clone(src, dst) ==
  /\ kind[src] = "buffer"
  /\ kind[dst] = "absent"
  /\ ~refit.active
  /\ nextId + storage[src].size - 1 <= MaxElems
  /\ LET r == ItemStorage_clone(storage[src], nextId)
     IN /\ storage' = [storage EXCEPT ![dst] = r.s]
        /\ hist' = [hist EXCEPT ![dst] = IterOf(r.s)]
        /\ ub' = (ub \/ r.ub)
  /\ kind' = [kind EXCEPT ![dst] = "buffer"]
  /\ nextId' = nextId + storage[src].size
  /\ indexed' = NoIndex
  /\ UNCHANGED <<io, walked, N, destroyed, yielded, refit>>

\* drop(h): of a RingBuffer, or of a RingBufferIter with what it still holds
Drop(h) ==
  /\ kind[h] \in {"buffer", "iter"}
  /\ ~refit.active
  /\ LET r == ItemStorage_drop(storage[h], destroyed, h)
     IN /\ storage' = [storage EXCEPT ![h] = r.s]
        /\ destroyed' = r.d
        /\ ub' = (ub \/ r.ub)
  /\ kind' = [kind EXCEPT ![h] = "dropped"]
  /\ indexed' = NoIndex
  /\ UNCHANGED <<io, walked, N, hist, nextId, yielded, refit>>

\* h.into_iter()
IntoIter(h) ==
  /\ kind[h] = "buffer"
  /\ ~refit.active
  /\ storage' = [storage EXCEPT ![h] = RingBuffer_into_iter(@)]
  /\ kind' = [kind EXCEPT ![h] = "iter"]
  /\ yielded' = [yielded EXCEPT ![h].src = IterOf(storage[h])]
  /\ indexed' = NoIndex
  /\ UNCHANGED <<io, walked, N, hist, nextId, destroyed, refit, ub>>

\* next() on the consuming iterator h
IterNext(h) ==
  /\ kind[h] = "iter"
  /\ ~refit.active
  /\ LET r == RingBufferIter_next(storage[h])
     IN /\ storage' = [storage EXCEPT ![h] = r.s]
        /\ yielded' = [yielded EXCEPT ![h].out = @ \o r.out]
        /\ ub' = (ub \/ r.ub)
  /\ indexed' = NoIndex
  /\ UNCHANGED <<io, walked, N, kind, hist, nextId, destroyed, refit>>

\* h[i]; a read of a slot that holds no live value yields arbitrary bits
Index(h, i) ==
  /\ kind[h] = "buffer"
  /\ ~refit.active
  /\ LET r == ItemStorage_index(storage[h], i)
     IN \E g \in {0} \cup Vals :
          /\ r.ub \/ g = 0
          /\ indexed' = [called |-> TRUE, h |-> h, i |-> i, kind |-> r.kind, why |-> r.why,
                         out |-> IF r.ub THEN [id |-> 0, val |-> g] ELSE r.out,
                         ub |-> r.ub]
  /\ UNCHANGED <<io, walked, N, kind, storage, hist, nextId, destroyed, yielded, refit, ub>>

\* let it = h.iter()
Iter(h) ==
  /\ kind[h] = "buffer"
  /\ ~refit.active
  /\ refit' = [active |-> TRUE, h |-> h, r |-> RingBuffer_iter(storage[h]), out |-> <<>>,
               done |-> FALSE]
  /\ indexed' = NoIndex
  /\ UNCHANGED <<io, walked, N, kind, storage, hist, nextId, destroyed, yielded, ub>>

\* faulty variant: next() on the reference iterator moves the cursors of the buffer
RefNext_draining ==
  /\ refit.active
  /\ LET x == RingBufferIterRef_next(storage[refit.h].items, refit.r)
     IN /\ refit' = [refit EXCEPT !.r = x.r, !.out = @ \o x.out,
                                  !.done = (x.out = <<>>)]
        /\ storage' = [storage EXCEPT ![refit.h].first = x.r.first,
                                      ![refit.h].size = x.r.size]
        /\ ub' = (ub \/ x.ub)
  /\ UNCHANGED <<io, walked, N, kind, hist, nextId, destroyed, yielded, indexed>>

\* it.next() on the reference iterator; done once it returned None
RefNext ==
  /\ refit.active
  /\ LET x == RingBufferIterRef_next(storage[refit.h].items, refit.r)
     IN /\ refit' = [refit EXCEPT !.r = x.r, !.out = @ \o x.out,
                                  !.done = (x.out = <<>>)]
        /\ ub' = (ub \/ x.ub)
  /\ UNCHANGED <<io, walked, N, kind, storage, hist, nextId, destroyed, yielded, indexed>>

\* the reference iterator goes out of scope: the borrow ends
EndIter ==
  /\ refit.active
  /\ refit' = NoRef
  /\ walked' = IF refit.done THEN [valid |-> TRUE, h |-> refit.h, out |-> refit.out]
                ELSE walked
  /\ UNCHANGED <<io, N, kind, storage, hist, nextId, destroyed, yielded, indexed, ub>>

\* the input sequences a deserializer may hold
Inputs == UNION {[1..n -> Vals] : n \in 0..MaxElems}

\* serialize h
Encode(h) ==
  /\ kind[h] = "buffer"
  /\ ~refit.active
  /\ LET r == serialize(storage[h])
     IN io' = [op |-> "encode", data |-> r.data, len |-> r.len, kind |-> "ok", read |-> 0]
  /\ indexed' = NoIndex
  /\ UNCHANGED <<walked, N, kind, storage, hist, nextId, destroyed, yielded, refit, ub>>

\* let h: Result<RingBuffer<T, N>, _> = deserialize(input)
Decode(input, h) ==
  /\ kind[h] = "absent"
  /\ ~refit.active
  /\ nextId + Len(input) - 1 <= MaxElems
  /\ LET r == deserialize(input, destroyed, nextId, h)
     IN /\ io' = [op |-> "decode", data |-> input, len |-> r.len, kind |-> r.kind,
                  read |-> r.read]
        /\ storage' = [storage EXCEPT ![h] = r.s]
        /\ kind' = [kind EXCEPT ![h] = IF r.kind = "ok" THEN "buffer" ELSE "absent"]
        /\ hist' = [hist EXCEPT ![h] = IF r.kind = "ok"
                                       THEN [k \in 1..Len(input) |->
                                               [id |-> nextId + k - 1, val |-> input[k]]]
                                       ELSE <<>>]
        /\ destroyed' = r.d
        /\ ub' = (ub \/ r.ub)
        /\ nextId' = nextId + r.read
  /\ indexed' = NoIndex
  /\ UNCHANGED <<walked, N, yielded, refit>>

\* The writers: both buffers, cloning, consuming iteration and drops
Next ==
  \/ \E h \in Handles, v \in Vals : Push(h, v)
  \/ Clone("a", "b")
  \/ \E h \in Handles : Drop(h)
  \/ \E h \in Handles : IntoIter(h)
  \/ \E h \in Handles : IterNext(h)

Spec == Init /\ [][Next]_vars

\* The readers of one buffer: pushes, indexed access and reference iteration
NextRead ==
  \/ \E v \in Vals : Push("a", v)
  \/ \E i \in IndexArgs : Index("a", i)
  \/ Iter("a")
  \/ RefNext
  \/ EndIter

SpecRead == Init /\ [][NextRead]_vars

\* Serialization: pushes to one buffer, its encoding, and decoding into another
NextSerde ==
  \/ \E v \in Vals : Push("a", v)
  \/ Encode("a")
  \/ \E input \in Inputs : Decode(input, "b")

SpecSerde == Init /\ [][NextSerde]_vars

\* Panicking destructors: pushes to one buffer, some of which unwind out of
\* the eviction, index calls, and the drop of the buffer
NextPanic ==
  \/ \E v \in Vals : Push("a", v)
  \/ \E v \in Vals : PushUnwind("a", v)
  \/ \E i \in IndexArgs : Index("a", i)
  \/ Drop("a")

SpecPanic == Init /\ [][NextPanic]_vars

\* ---------------------------------------------------------------- properties
Live(h) == kind[h] = "buffer"

\* the last n entries of a sequence
LastN(seq, n) == SubSeq(seq, Len(seq) - Min(Len(seq), n) + 1, Len(seq))

ValsOf(seq) == [k \in 1..Len(seq) |-> seq[k].val]

\* C1: get_size() of a buffer never exceeds N, and a buffer made by new() that
\* was pushed to k times has get_size() = min(k, N); so it stays N once there.
C1_CapacityInvariant ==
  \A h \in Handles :
    Live(h) =>
      /\ RingBuffer_get_size(storage[h]) <= N
      /\ h = "a" => RingBuffer_get_size(storage[h]) = Min(Len(hist[h]), N)

\* two pushes beyond a full buffer of capacity >= 2
C1_Witness ==
  /\ N >= 2
  /\ Live("a")
  /\ Len(hist["a"]) >= N + 2
  /\ RingBuffer_get_size(storage["a"]) = N

\* C2: for N >= 1, iter() on a buffer made by new() yields exactly the last
\* min(k, N) of the k pushed elements, in push order, and then None; so after
\* a push the last element it yields is the one just pushed.
C2_OrderPreservation ==
  (N >= 1 /\ Live("a")) =>
    /\ IterOf(storage["a"]) = LastN(hist["a"], N)
    /\ hist["a"] # <<>> =>
         IterOf(storage["a"])[Len(IterOf(storage["a"]))] = hist["a"][Len(hist["a"])]
    /\ Borrowed("a") =>
         /\ refit.out = SubSeq(LastN(hist["a"], N), 1, Len(refit.out))
         /\ Len(refit.out) + refit.r.size = Min(Len(hist["a"]), N)
         /\ refit.done => refit.out = LastN(hist["a"], N)
         /\ (RingBufferIterRef_next(storage["a"].items, refit.r).out = <<>>)
              <=> (refit.out = LastN(hist["a"], N))

\* a walk of iter() that ended with None after N + 1 pushes: the first is gone
C2_Witness ==
  /\ N >= 2
  /\ Len(hist["a"]) = N + 1
  /\ Borrowed("a")
  /\ refit.done
  /\ refit.out = SubSeq(hist["a"], 2, N + 1)

\* the physical indices the cursors declare occupied: {(first + k) mod N : k < size}
Declared(s) == IF N = 0 THEN {} ELSE {(s.first + k) % N : k \in 0..(s.size - 1)}

\* the physical indices that hold a live value
OccupiedSlots(s) == {p \in DOMAIN s.items : s.items[p].st = "occupied"}

\* C3: in every state of a buffer or of a consuming iterator the slots that
\* hold a live value are exactly those at (first + k) mod N for k < size, every
\* other slot holds none, and 0 <= size <= N.
C3_OccupancyInvariant ==
  \A h \in Handles :
    kind[h] \in {"buffer", "iter"} =>
      /\ DOMAIN storage[h].items = 0..(N - 1)
      /\ OccupiedSlots(storage[h]) = Declared(storage[h])
      /\ Cardinality(OccupiedSlots(storage[h])) = storage[h].size
      /\ 0 <= storage[h].size
      /\ storage[h].size <= N

\* a consuming iterator over a wrapped clone which has yielded one element and
\* holds another
C3_Witness ==
  /\ kind["b"] = "iter"
  /\ Len(yielded["b"].out) = 1
  /\ storage["b"].size >= 1
  /\ storage["b"].first = 0
  /\ Len(hist["a"]) > N

\* the elements whose destructor the drop of h ran
DropsBy(h) ==
  {id \in Ids : \E k \in 1..Len(destroyed[id]) :
                  destroyed[id][k] = [site |-> "drop", by |-> h]}

\* what push leaves in the destructor log of an element it removed from h
Evicted(h) == <<[site |-> IF N = 0 THEN "discard" ELSE "evict", by |-> h]>>

\* C4: no destructor runs twice; while a buffer lives, exactly the elements
\* pushed out of it (all but the last `size` placed) have been destroyed, by
\* the push that replaced them; once the buffer is dropped every element placed
\* in it has been destroyed exactly once, and the drop ran `size` destructors.
C4_DestructionCompleteness ==
  /\ \A id \in Ids : Len(destroyed[id]) <= 1
  /\ \A h \in Handles :
       /\ Live(h) =>
            \A k \in 1..Len(hist[h]) :
              destroyed[hist[h][k].id] =
                IF k <= Len(hist[h]) - storage[h].size THEN Evicted(h) ELSE <<>>
       /\ (kind[h] = "dropped" /\ yielded[h].src = <<>>) =>
            /\ \A k \in 1..Len(hist[h]) :
                 destroyed[hist[h][k].id] =
                   IF k <= Len(hist[h]) - storage[h].size
                   THEN Evicted(h)
                   ELSE <<[site |-> "drop", by |-> h]>>
            /\ Cardinality(DropsBy(h)) = storage[h].size

\* a buffer dropped after pushes that evicted
C4_Witness ==
  /\ N >= 2
  /\ kind["a"] = "dropped"
  /\ yielded["a"].src = <<>>
  /\ Len(hist["a"]) > N
  /\ Cardinality(DropsBy("a")) = N

\* C5: index(i) panics for every i >= size, i = size included.
C5_OutOfRangeIndexPanics ==
  (indexed.called /\ indexed.i >= storage[indexed.h].size) => indexed.kind = "panic"

\* C6: for i < size, buffer[i] is the element at physical index
\* (first + i) mod N, which is the i-th oldest live element and the i-th
\* element iter() yields; buffer[0] is the oldest, buffer[size - 1] the newest.
C6_InRangeIndex ==
  (indexed.called /\ indexed.i < storage[indexed.h].size) =>
    LET s == storage[indexed.h]
        placed == hist[indexed.h]
    IN /\ indexed.kind = "ref"
       /\ ~indexed.ub
       /\ indexed.out = ElemOf(s.items[(s.first + indexed.i) % N])
       /\ indexed.out = IterOf(s)[indexed.i + 1]
       /\ indexed.out = placed[Len(placed) - s.size + indexed.i + 1]
       /\ indexed.i = s.size - 1 => indexed.out = placed[Len(placed)]

\* the newest element read by index from a wrapped buffer
C6_Witness ==
  /\ indexed.called
  /\ indexed.kind = "ref"
  /\ indexed.i >= 1
  /\ indexed.i = storage[indexed.h].size - 1
  /\ storage[indexed.h].first # 0

\* C7: with N = 0 every push leaves size = 0 and first = 0 and writes no slot
\* (there is none), the pushed value is destroyed by the push itself, and both
\* iter() and into_iter() yield nothing.
C7_ZeroCapacity ==
  N = 0 =>
    \A h \in Handles :
      /\ storage[h].size = 0
      /\ storage[h].first = 0
      /\ DOMAIN storage[h].items = {}
      /\ \A k \in 1..Len(hist[h]) :
           destroyed[hist[h][k].id] = <<[site |-> "discard", by |-> h]>>
      /\ Live(h) => IterOf(storage[h]) = <<>>
      /\ kind[h] = "iter" => RingBufferIter_next(storage[h]).out = <<>>
      /\ yielded[h].out = <<>>

\* a zero-capacity buffer pushed to twice and then turned into an iterator
C7_Witness ==
  /\ N = 0
  /\ Len(hist["a"]) >= 2
  /\ kind["a"] = "iter"

\* C8: a consuming iterator hands out exactly the elements the buffer held
\* when into_iter took it, oldest first (what iter() would have yielded), each
\* once: what it has returned and what it still holds always make up that
\* sequence; next() returns None exactly when all were returned; a returned
\* element is never destroyed by the iterator, and after all were returned
\* size is 0 and the drop of the iterator runs no destructor.
C8_ConsumingIteration ==
  \A h \in Handles :
    /\ kind[h] = "iter" =>
         /\ yielded[h].out \o IterOf(storage[h]) = yielded[h].src
         /\ yielded[h].src = LastN(hist[h], N)
         /\ (RingBufferIter_next(storage[h]).out = <<>>) <=> (yielded[h].out = yielded[h].src)
         /\ yielded[h].out = yielded[h].src => storage[h].size = 0
    /\ \A k \in 1..Len(yielded[h].out) : destroyed[yielded[h].out[k].id] = <<>>
    /\ (kind[h] = "dropped" /\ yielded[h].out = yielded[h].src /\ yielded[h].src # <<>>) =>
         DropsBy(h) = {}

\* a wrapped buffer consumed to the end and then dropped
C8_Witness ==
  /\ N >= 2
  /\ Len(hist["a"]) > N
  /\ kind["a"] = "dropped"
  /\ yielded["a"].out = yielded["a"].src
  /\ Len(yielded["a"].out) = N

\* the step that makes "b" by a.clone()
CloneStep == kind["b"] = "absent" /\ kind'["b"] = "buffer"

\* C9: clone() gives a buffer with the same first and size, a duplicate of
\* equal value at exactly the occupied physical indices and no value anywhere
\* else, so iter() on the clone yields the values iter() on the original does.
C9_CloneFidelity ==
  [][CloneStep =>
       LET o == storage["a"]
           c == storage'["b"]
       IN /\ c.first = o.first
          /\ c.size = o.size
          /\ DOMAIN c.items = DOMAIN o.items
          /\ \A p \in DOMAIN o.items :
               IF o.items[p].st = "occupied"
               THEN c.items[p].st = "occupied" /\ c.items[p].val = o.items[p].val
               ELSE c.items[p] = Uninit
          /\ Len(IterOf(c)) = o.size
          /\ ValsOf(IterOf(c)) = ValsOf(IterOf(o))]_vars

\* the clone of a wrapped buffer, right after clone()
C9_Witness ==
  /\ Live("a")
  /\ Live("b")
  /\ storage["b"].first # 0
  /\ storage["b"].size >= 2
  /\ hist["b"] = IterOf(storage["b"])
  /\ ValsOf(hist["b"]) = ValsOf(IterOf(storage["a"]))
  /\ nextId = Len(hist["a"]) + Len(hist["b"]) + 1

\* what a step did to handle h
Touched(h) == storage'[h] # storage[h] \/ kind'[h] # kind[h] \/ hist'[h] # hist[h]

\* the ids of the elements placed in h
IdsOf(h) == {hist[h][k].id : k \in 1..Len(hist[h])}

\* C10: clone() leaves the original as it was; afterwards a step on one of the
\* two buffers leaves the other's first, size, slots and contents as they
\* were; the two hold different elements, and an element's destructor runs at
\* most once and only through the buffer it was placed in.
C10_CloneIndependence ==
  /\ [][/\ CloneStep =>
            /\ storage'["a"] = storage["a"]
            /\ kind'["a"] = kind["a"]
            /\ hist'["a"] = hist["a"]
            /\ destroyed' = destroyed
        /\ \A h1, h2 \in Handles :
             (h1 # h2 /\ Touched(h1)) =>
               /\ ~Touched(h2)
               /\ IterOf(storage'[h2]) = IterOf(storage[h2])]_vars
  /\ [](/\ IdsOf("a") \cap IdsOf("b") = {}
        /\ \A h \in Handles : \A id \in IdsOf(h) :
             /\ Len(destroyed[id]) <= 1
             /\ \A k \in 1..Len(destroyed[id]) : destroyed[id][k].by = h)

\* the original dropped while its clone, pushed to until it evicted, lives on
C10_Witness ==
  /\ N >= 2
  /\ kind["a"] = "dropped"
  /\ DropsBy("a") # {}
  /\ Live("b")
  /\ Len(hist["b"]) > storage["b"].size
  /\ Cardinality(IdsOf("b")) = Len(hist["b"])

\* C11: decoding more than N elements fails with a length error (of N) raised
\* on element N + 1, never giving a buffer; decoding at most N elements never
\* fails.  With N = 0 every non-empty input fails.
C11_DecodeRejectsExcess ==
  io.op = "decode" =>
    IF Len(io.data) > N
    THEN /\ io.kind = "invalid_length"
         /\ io.len = N
         /\ io.read = N + 1
         /\ kind["b"] = "absent"
    ELSE /\ io.kind = "ok"
         /\ io.read = Len(io.data)
         /\ kind["b"] = "buffer"

\* an input two longer than a capacity >= 1 was rejected
C11_Witness ==
  /\ io.op = "decode"
  /\ N >= 1
  /\ Len(io.data) = N + 2
  /\ io.kind = "invalid_length"

\* C12: decoding a sequence of c <= N elements gives a buffer of size c whose
\* iter() is that sequence; so decoding what a buffer serializes to (a wrapped
\* one too) succeeds and gives a buffer of the same size and contents.
C12_DecodeRoundTrip ==
  io.op = "decode" =>
    /\ Len(io.data) <= N =>
         /\ io.kind = "ok"
         /\ Live("b")
         /\ RingBuffer_get_size(storage["b"]) = Len(io.data)
         /\ ValsOf(IterOf(storage["b"])) = io.data
    /\ (Live("a") /\ io.data = serialize(storage["a"]).data) =>
         /\ io.kind = "ok"
         /\ Live("b")
         /\ RingBuffer_get_size(storage["b"]) = RingBuffer_get_size(storage["a"])
         /\ ValsOf(IterOf(storage["b"])) = ValsOf(IterOf(storage["a"]))

\* the encoding of a wrapped, full buffer decoded again
C12_Witness ==
  /\ io.op = "decode"
  /\ N >= 2
  /\ storage["a"].first # 0
  /\ io.data = serialize(storage["a"]).data
  /\ Live("b")
  /\ storage["b"].first = 0
  /\ RingBuffer_get_size(storage["b"]) = N

\* C13: serialization declares the length get_size() and emits exactly that
\* many elements, never padded to N: the live elements oldest to newest, which
\* is iter() collected.
C13_Encode ==
  (io.op = "encode" /\ Live("a")) =>
    /\ io.len = RingBuffer_get_size(storage["a"])
    /\ Len(io.data) = RingBuffer_get_size(storage["a"])
    /\ io.data = ValsOf(LastN(hist["a"], N))
    /\ io.data = ValsOf(IterOf(storage["a"]))

\* a buffer of capacity 3 holding two elements was serialized
C13_Witness ==
  /\ io.op = "encode"
  /\ N >= 3
  /\ Len(io.data) = 2
  /\ io.len = 2

\* C14: making iter() and calling next() on it leave first, size and every
\* slot of the buffer as they were, next() moving only the iterator's own
\* first and size; so a second walk of the unmodified buffer yields what the
\* first did.
C14_ReferenceIterationReadOnly ==
  /\ [][(refit' # refit) =>
          /\ storage' = storage
          /\ kind' = kind
          /\ hist' = hist
          /\ destroyed' = destroyed
          /\ (refit.active /\ refit'.active /\ refit.r.size > 0) =>
               /\ refit'.r.size = refit.r.size - 1
               /\ refit'.r.first = (refit.r.first + 1) % N]_vars
  /\ []((refit.active /\ walked.valid /\ walked.h = refit.h) =>
          /\ refit.out = SubSeq(walked.out, 1, Len(refit.out))
          /\ refit.done => refit.out = walked.out)

\* a second complete walk over a wrapped buffer
C14_Witness ==
  /\ refit.active
  /\ refit.done
  /\ walked.valid
  /\ walked.h = refit.h
  /\ Len(refit.out) >= 2
  /\ refit.out = walked.out
  /\ storage[refit.h].first # 0

\* C15: no operation reads by reference, moves out of, clones from or destroys
\* a slot that holds no live value.
C15_NoInvalidSlotAccess == ~ub /\ ~indexed.ub

\* the step a.push(..) that placed an element
PushStep == Len(hist'["a"]) = Len(hist["a"]) + 1

\* C16: for N >= 1 push writes the slot last = (first + size) mod N and no
\* other.  With size < N that slot is empty, nothing is destroyed and first
\* stays.  With size = N, last = first, the slot holds the oldest element,
\* that element (not the new one) is destroyed, once, and first becomes
\* (first + 1) mod N.
C16_PushStep ==
  [][(PushStep /\ N >= 1) =>
       LET s == storage["a"]
           lst == (s.first + s.size) % N
           new_item == hist'["a"][Len(hist'["a"])]
           old == ElemOf(s.items[lst])
       IN /\ storage'["a"].items = [s.items EXCEPT ![lst] = Occupied(new_item)]
          /\ destroyed'[new_item.id] = <<>>
          /\ s.size < N =>
               /\ s.items[lst].st # "occupied"
               /\ destroyed' = destroyed
               /\ storage'["a"].first = s.first
          /\ s.size = N =>
               /\ lst = s.first
               /\ s.items[lst].st = "occupied"
               /\ old = IterOf(s)[1]
               /\ old = hist["a"][Len(hist["a"]) - N + 1]
               /\ destroyed[old.id] = <<>>
               /\ destroyed' = [destroyed EXCEPT ![old.id] = <<[site |-> "evict", by |-> "a"]>>]
               /\ storage'["a"].first = (s.first + 1) % N]_vars

\* two evicting pushes on a buffer of capacity >= 2: the cursor has moved twice
C16_Witness ==
  /\ N >= 2
  /\ Live("a")
  /\ Len(hist["a"]) = N + 2
  /\ storage["a"].first = 2 % N
  /\ destroyed[hist["a"][2].id] = <<[site |-> "evict", by |-> "a"]>>

\* the step a.push(..) that unwound out of the destructor of the evicted element
PushUnwindStep ==
  \E id \in Ids :
    /\ Len(destroyed'[id]) = Len(destroyed[id]) + 1
    /\ destroyed'[id][Len(destroyed'[id])] = [site |-> "evict_panic", by |-> "a"]

\* the step a[i] that panicked
IndexPanicStep == indexed'.called /\ indexed'.kind = "panic" /\ indexed' # indexed

\* C17: a push that terminates abnormally in the destructor of the evicted
\* element, and an index call that panics, leave first, size and the occupancy
\* of every slot as they were; the occupancy invariant holds afterwards, and
\* no destructor runs twice, the later drop of the buffer included.
C17_Atomicity ==
  /\ [][(PushUnwindStep \/ IndexPanicStep) => storage'["a"] = storage["a"]]_vars
  /\ [](Live("a") => OccupiedSlots(storage["a"]) = Declared(storage["a"]))
  /\ [](\A id \in Ids : Len(destroyed[id]) <= 1)

\* C18: with N = 0 no operation evaluates a remainder or a division by N.
C18_NoDivisionByZero ==
  N = 0 => ~(indexed.called /\ indexed.why = "remainder by zero")

\* the cursor of h when into_iter took it: the slot of the oldest element it
\* held (a slot keeps the bits of its element after the element left)
First0(h) ==
  CHOOSE p \in 0..(N - 1) : storage[h].items[p].id = yielded[h].src[1].id

\* C19: a consuming iterator over s elements that yielded j of them hands out
\* the j oldest in order and destroys none of them; while it lives the other
\* s - j are not destroyed either; once it is dropped exactly those s - j, at
\* the physical indices (first0 + j + k) mod N for k < s - j, have been
\* destroyed, once each, by that drop.
C19_PartiallyDrainedIterator ==
  \A h \in Handles :
    LET src == yielded[h].src
        out == yielded[h].out
        j == Len(out)
        s == Len(src)
    IN /\ kind[h] = "iter" =>
            /\ j <= s
            /\ out = SubSeq(src, 1, j)
            /\ storage[h].size = s - j
            /\ \A k \in 1..s : destroyed[src[k].id] = <<>>
       /\ (kind[h] = "dropped" /\ s > 0) =>
            /\ j <= s
            /\ out = SubSeq(src, 1, j)
            /\ \A k \in 1..s :
                 destroyed[src[k].id] =
                   IF k <= j THEN <<>> ELSE <<[site |-> "drop", by |-> h]>>
            /\ DropsBy(h) = {src[k].id : k \in (j + 1)..s}
            /\ Cardinality(DropsBy(h)) = s - j
            /\ storage[h].first = (First0(h) + j) % N
            /\ \A k \in 0..(s - j - 1) :
                 /\ storage[h].items[(First0(h) + j + k) % N].id = src[j + k + 1].id
                 /\ storage[h].items[(First0(h) + j + k) % N].st = "stale"

\* an iterator over a wrapped, full buffer of capacity >= 2 that was dropped
\* after it yielded some but not all elements
C19_Witness ==
  \E h \in Handles :
    /\ kind[h] = "dropped"
    /\ N >= 2
    /\ Len(yielded[h].src) = N
    /\ First0(h) # 0
    /\ Len(yielded[h].out) >= 1
    /\ Len(yielded[h].out) < N
    /\ DropsBy(h) # {}

\* C20: the cursor of a buffer, new, pushed to or cloned, stays below N when
\* N >= 1, is 0 while the buffer is not full, and after k >= N pushes to a
\* buffer made by new() is (k - N) mod N.
C20_CursorInvariant ==
  /\ \A h \in Handles :
       Live(h) =>
         /\ storage[h].first >= 0
         /\ N >= 1 => storage[h].first < N
         /\ N = 0 => storage[h].first = 0
         /\ storage[h].size < N => storage[h].first = 0
         /\ storage[h].first # 0 => storage[h].size = N
  /\ (Live("a") /\ N >= 1 /\ Len(hist["a"]) >= N) =>
       storage["a"].first = (Len(hist["a"]) - N) % N

\* a buffer of capacity >= 2 after N + 1 pushes, and a clone of it
C20_Witness ==
  /\ N >= 2
  /\ Live("a")
  /\ Len(hist["a"]) = N + 1
  /\ storage["a"].first = 1
  /\ Live("b")
  /\ storage["b"].first = 1

====
